---- MODULE Spec2Model ----
(***************************************************************************)
(* tickety-tock: the data layer (class Data over an SQLite connection),    *)
(* as a state machine.  The tables are the state; every awaited db.run /   *)
(* db.get is one atomic step (SQLite executes one statement at a time),    *)
(* and the synchronous code that follows an await up to the next await     *)
(* belongs to the same step.  Operations made of several awaited           *)
(* statements (createSlug, getOrCreateUser, createTimer, createGroup) run  *)
(* as calls in flight that interleave; operations made of one statement    *)
(* are one step.                                                           *)
(***************************************************************************)
EXTENDS Integers, Sequences, FiniteSets, TLC

\* ------------------------------------------------------------- bounds
NumProcs == 2       \* calls that may be in flight at once
MaxCalls == 3       \* calls of getOrCreateUser, createTimer, createGroup in one run
MaxSlugCalls == 4   \* calls of createSlug on its own in one run
NumChars == 1       \* how many characters of slugChars a draw may use
NumEmails == 2      \* distinct e-mail addresses that log in
NumSecrets == 1     \* distinct values randomUUID() may produce
MaxTimers == 1      \* Timers rows ever inserted
MaxGroups == 1      \* Groups rows ever inserted
MaxLinks == 1       \* TimerGroups rows ever inserted
MaxNow == 1         \* last value of the clock unixepoch() reads
MaxListed == 2      \* groups and membership rows in the runs that list them
MaxCount == 1       \* years, weeks, days, hours and minutes in the durations formatted
SubSeconds == 2     \* parts of a second the clock readings are counted in
MaxValue == 2       \* largest value given to a setting
NumSessions == 2    \* browser sessions
NumStates == 2      \* values randomUUID() gives the login handler

\* ------------------------------------------------- program constants
FirstLength == 6
LengthLimit == 12
LengthStep == 2
AttemptsPerLength == 9
DefaultFormat == 2
InitialVersion == 1

\* characters to use in a slug, with easily mistakable characters removed
slugChars ==
  << "A", "B", "C", "D", "E", "F", "G", "H", "J", "K", "L", "M", "N", "P",
     "Q", "R", "S", "T", "U", "V", "W", "X", "Y", "Z", "a", "b", "c", "d",
     "e", "f", "g", "h", "i", "j", "k", "m", "n", "o", "p", "q", "r", "s",
     "t", "u", "v", "w", "x", "y", "z", "2", "3", "4", "5", "6", "7", "8",
     "9" >>

\* PRAGMA foreign_keys: SQLite leaves foreign-key enforcement off on every new
\* connection, and neither the constructor nor init() turns it on.
foreign_keys == FALSE

Procs == 1 .. NumProcs
Emails == 1 .. NumEmails
\* The user ids callers pass: AUTOINCREMENT gives the users the ids 1, 2, ...
UserIds == 1 .. NumEmails
Secrets == 1 .. NumSecrets
\* The secrets callers of resetTimer pass: the real ones and a wrong guess.
SecretGuesses == 1 .. (NumSecrets + 1)
\* The store's specifications run one multi-statement call at a time.
StoreProcs == {1}
\* The user ids addTimer is given in the runs that list groups.
Linkers == {1}
Titles == {"t"}
Sessions == 1 .. NumSessions
States == 1 .. NumStates
Lengths == {FirstLength + LengthStep * k : k \in 0 .. ((LengthLimit - FirstLength - 1) \div LengthStep)}

\* The values of lastID in a RunResult: undefined, or a rowid n, written << n >>.
Undefined == << >>
NoError == "ok"
ExhaustionError == "token space exhausted"
NoGroupIdError == "Did not receive group id"
ForeignKeyError == "SQLITE_CONSTRAINT: FOREIGN KEY constraint failed"
TypeError == "TypeError: res is undefined"
SqlSyntaxError == "SQLITE_ERROR: ORDER BY clause should come after UNION ALL not before"
ScaleError == "Error: Unrecoznied scale"
\* SQL NULL, the value of a placeholder that was given no value.
Null == << >>

\* The strings one draw of the inner loop can build, for one length: the
\* draws are bounded to strings that repeat one of the first NumChars
\* characters.
SlugDraws(length) == {[i \in 1 .. length |-> slugChars[c]] : c \in 1 .. NumChars}

AllSlugs == UNION {SlugDraws(l) : l \in Lengths}

\* The slugs callers pass to the operations that take one: every slug of the
\* shortest length, issued or not, and one slug of the next length.
SlugArgs ==
  SlugDraws(FirstLength) \cup {[i \in 1 .. FirstLength + LengthStep |-> slugChars[1]]}

VARIABLES
  Settings,       \* table Settings: value by key (key UNIQUE)
  Slugs,          \* table Slugs: the set of slug values (slug UNIQUE)
  Users,          \* table Users: rows [id, email, slug]
  Timers,         \* table Timers: rows of interface Timer
  Groups,         \* table Groups: rows [id, title, slug, userid, createdAt]
  TimerGroups,    \* table TimerGroups: rows [id, groupid, timerid, userid, createdAt]
  seq,            \* sqlite_sequence: the largest id AUTOINCREMENT has given, per table
  now,            \* the clock unixepoch() reads
  auth,           \* the options of the auth middleware, and req.session.auth per session
  proc,           \* the calls in flight: per caller, where its async function stands
  calls,          \* calls started so far that run createSlug
  last,           \* the call that completed most recently, and its outcome
  slugReturns,    \* how many times createSlug has returned each slug
  userReturns     \* what getOrCreateUser has returned, in order: [user, unseen]

vars == << Settings, Slugs, Users, Timers, Groups, TimerGroups, seq, now, auth, proc,
           calls, last, slugReturns, userReturns >>

tables == << Settings, Slugs, Users, Timers, Groups, TimerGroups, seq >>

\* A caller: pc is the statement its async function awaits next; length and
\* attempt are createSlug's loop variables, tries counts the inserts its
\* createSlug has run, slug is the slug createSlug returned, and unseen
\* records whether getOrCreateUser began while its e-mail had no Users row.
Idle == [pc |-> "idle", op |-> "none", email |-> 0, userId |-> 0,
         length |-> 0, attempt |-> 0, tries |-> 0, slug |-> << >>,
         unseen |-> FALSE]

\* The record of a completed call: its name, the arguments of a one-statement
\* call (0 or << >> where it has none) and the error it threw, if any.  For a
\* createSlug call, ret is the slug it returned and during the callers whose
\* createSlug calls were running when it returned; for the other calls that
\* return a value, ret is that value.  clock is the reading of Date.now() a
\* formatTime call made.  What createSlug and
\* getOrCreateUser returned over the whole run is kept in slugReturns and
\* userReturns.
NoCall == [op |-> "none", userId |-> 0, slug |-> << >>, secret |-> 0,
           groupId |-> 0, timerId |-> 0, key |-> "", value |-> 0,
           epoch |-> 0, format |-> << >>, clock |-> 0, diff |-> 0,
           sid |-> 0, state |-> << >>, callback |-> << >>,
           err |-> NoError, ret |-> << >>, during |-> {}]

\* req.session.auth of a session nothing was stored in: auth?.state and
\* auth?.email are undefined.  A value v that is there is written << v >>.
NoSessionAuth == [state |-> Undefined, email |-> Undefined]

\* The middleware made without a loginHandler option, every session new.
NoAuth == [loginHandler |-> FALSE, session |-> [s \in Sessions |-> NoSessionAuth]]

\* INSERT OR IGNORE INTO Settings (key, value) VALUES (key, value)
InsertOrIgnoreSetting(table, key, value) ==
  IF key \in DOMAIN table THEN table
  ELSE [k \in DOMAIN table \cup {key} |-> IF k = key THEN value ELSE table[k]]

\* The statements of setupStatements that write rows, run on table Settings:
\* INSERT OR IGNORE INTO Settings (key, value) VALUES ('version', 1).  The
\* other statements are CREATE ... IF NOT EXISTS.
SetupSettings(table) == InsertOrIgnoreSetting(table, "version", InitialVersion)

Init ==
  /\ Settings = SetupSettings(<< >>)
  /\ Slugs = {}
  /\ Users = {}
  /\ Timers = {}
  /\ Groups = {}
  /\ TimerGroups = {}
  /\ seq = [t \in {"Users", "Timers", "Groups", "TimerGroups"} |-> 0]
  /\ now = 0
  /\ auth = NoAuth
  /\ proc = [p \in Procs |-> Idle]
  /\ calls = 0
  /\ last = NoCall
  /\ slugReturns = [s \in AllSlugs |-> 0]
  /\ userReturns = << >>

\* ---------------------------------------------------------- helpers
Max(S) == CHOOSE x \in S : \A y \in S : y <= x

\* The record of the call `me` (a proc entry) completing with err.
Outcome(me, err) == [NoCall EXCEPT !.op = me.op, !.err = err]

\* A call completes: its outcome is recorded and its caller is free again.
Complete(p, err) ==
  /\ last' = Outcome(proc[p], err)
  /\ proc' = [proc EXCEPT ![p] = Idle]

\* ------------------------------------------------------- createSlug
\* INSERT OR IGNORE INTO Slugs (slug) VALUES (?): the table after the
\* statement.  slug is UNIQUE, so a value already present is ignored.
InsertOrIgnoreSlug(slug) == Slugs \cup {slug}

\* The rowids a connection may report as "last inserted".
Rowids == 0 .. Max({Cardinality(Slugs), seq["Users"], seq["Timers"], seq["Groups"], seq["TimerGroups"]})

\* result.lastID of that statement.  A row that was inserted reports its own
\* rowid.  For an ignored insert the driver documents lastID as holding no
\* valid information: the RunResult type declares it optional, and the
\* sqlite3 driver copies sqlite3_last_insert_rowid(), the rowid of an earlier
\* insert, into it.  Both outcomes are modelled.
SlugInsertLastID(slug) ==
  IF slug \notin Slugs THEN {<< Cardinality(Slugs) + 1 >>}
  ELSE {Undefined} \cup {<< n >> : n \in Rowids}

\* if (result.lastID !== undefined) return slug
SlugAccepted(lastID) == lastID # Undefined

\* (variant: the loop test written attempt <= 9)
MoreAttemptsInclusive(attempt) == attempt + 1 <= AttemptsPerLength

\* for (let attempt=0; attempt < 9; attempt++)
MoreAttempts(attempt) == attempt + 1 < AttemptsPerLength

\* for (let length=6; length<12; length+=2)
MoreLengths(length) == length + LengthStep < LengthLimit

\* Where the caller of createSlug goes on once it has its slug.
AfterSlug(op) ==
  CASE op = "getOrCreateUser" -> "insertUser"
    [] op = "createTimer" -> "insertTimer"
    [] op = "createGroup" -> "insertGroup"
    [] OTHER -> "idle"

\* The callers other than p that are inside createSlug.
Running(p) == {q \in Procs \ {p} : proc[q].pc = "createSlug"}

CountReturn(slug) == [slugReturns EXCEPT ![slug] = @ + 1]

\* One turn of the inner loop: draw a candidate, run the insert, test
\* result.lastID; then return, go round again, or throw.
CreateSlugStep(p) ==
  /\ proc[p].pc = "createSlug"
  /\ \E slug \in SlugDraws(proc[p].length) :
       \E lastID \in SlugInsertLastID(slug) :
         LET me == [proc[p] EXCEPT !.tries = @ + 1]
         IN
         /\ Slugs' = InsertOrIgnoreSlug(slug)
         /\ IF SlugAccepted(lastID)
            THEN /\ slugReturns' = CountReturn(slug)
                 /\ IF AfterSlug(me.op) = "idle"
                    THEN /\ last' = [Outcome(me, NoError) EXCEPT
                                       !.ret = slug, !.during = Running(p)]
                         /\ proc' = [proc EXCEPT ![p] = Idle]
                    ELSE /\ proc' = [proc EXCEPT ![p] =
                                       [me EXCEPT !.pc = AfterSlug(me.op), !.slug = slug]]
                         /\ UNCHANGED last
            ELSE /\ UNCHANGED slugReturns
                 /\ IF MoreAttempts(me.attempt)
                    THEN /\ proc' = [proc EXCEPT ![p] = [me EXCEPT !.attempt = @ + 1]]
                         /\ UNCHANGED last
                    ELSE IF MoreLengths(me.length)
                    THEN /\ proc' = [proc EXCEPT ![p] =
                                       [me EXCEPT !.length = @ + LengthStep, !.attempt = 0]]
                         /\ UNCHANGED last
                    ELSE \* throw new Error('token space exhausted')
                         /\ last' = Outcome(me, ExhaustionError)
                         /\ proc' = [proc EXCEPT ![p] = Idle]
  /\ UNCHANGED << Users, Timers, Groups, TimerGroups, seq, now, auth, Settings, calls, userReturns >>

\* A call enters createSlug: length = 6, attempt = 0.
EnterCreateSlug(p, op, email, userId) ==
  /\ proc[p].pc = "idle"
  /\ calls < (IF op = "createSlug" THEN MaxSlugCalls ELSE MaxCalls)
  /\ calls' = calls + 1
  /\ \E unseen \in BOOLEAN :
       proc' = [proc EXCEPT ![p] =
         [Idle EXCEPT !.pc = "createSlug", !.op = op, !.email = email,
                      !.userId = userId, !.length = FirstLength,
                      !.unseen = unseen]]

\* db.createSlug() called on its own (as the test 'Generate slugs' does).
CallCreateSlug(p) ==
  /\ EnterCreateSlug(p, "createSlug", 0, 0)
  /\ ~proc'[p].unseen
  /\ UNCHANGED << tables, now, auth, last, slugReturns, userReturns >>

\* -------------------------------------------------- getOrCreateUser
CallGetOrCreateUser(p, email) ==
  /\ EnterCreateSlug(p, "getOrCreateUser", email, 0)
  /\ proc'[p].unseen = (\A u \in Users : u.email # email)
  /\ UNCHANGED << tables, now, auth, last, slugReturns, userReturns >>

\* (variant: email not declared UNIQUE, every insert adds a row)
InsertUserNotUnique(email, slug) ==
  Users \cup {[id |-> seq["Users"] + 1, email |-> email, slug |-> slug]}

\* (variant: INSERT OR REPLACE, the new row takes the place of the old one)
InsertOrReplaceUser(email, slug) ==
  {u \in Users : u.email # email}
    \cup {[id |-> seq["Users"] + 1, email |-> email, slug |-> slug]}

\* INSERT OR IGNORE INTO USERS (email, slug) VALUES (?, ?): email is UNIQUE,
\* so the row is ignored when the e-mail already has one.
InsertOrIgnoreUser(email, slug) ==
  IF \E u \in Users : u.email = email THEN Users
  ELSE Users \cup {[id |-> seq["Users"] + 1, email |-> email, slug |-> slug]}

InsertUser(p) ==
  /\ proc[p].pc = "insertUser"
  /\ Users' = InsertOrIgnoreUser(proc[p].email, proc[p].slug)
  /\ seq' = [seq EXCEPT !["Users"] = IF Users' = Users THEN @ ELSE @ + 1]
  /\ proc' = [proc EXCEPT ![p].pc = "selectUser"]
  /\ UNCHANGED << Slugs, Timers, Groups, TimerGroups, now, auth, Settings, calls, last,
                  slugReturns, userReturns >>

\* SELECT id, slug FROM Users WHERE email = ?  (db.get: the first row, or
\* undefined when there is none)
SelectUserByEmail(email) == {u \in Users : u.email = email}

SelectUser(p) ==
  /\ proc[p].pc = "selectUser"
  /\ LET rows == SelectUserByEmail(proc[p].email)
     IN IF rows = {}
        THEN /\ Complete(p, TypeError)   \* res.id of undefined
             /\ UNCHANGED userReturns
        ELSE \E res \in rows :
               LET user == [email |-> proc[p].email, id |-> res.id, slug |-> res.slug]
               IN /\ Complete(p, NoError)
                  /\ userReturns' = Append(userReturns,
                                            [user |-> user, unseen |-> proc[p].unseen])
  /\ UNCHANGED << tables, now, auth, calls, slugReturns >>

\* ------------------------------------------------------ createTimer
\* createTimer called while fewer than max timers exist or are being created.
CallCreateTimerUpTo(p, userId, max) ==
  /\ seq["Timers"] + Cardinality({q \in Procs : proc[q].op = "createTimer"}) < max
  /\ EnterCreateSlug(p, "createTimer", 0, userId)
  /\ ~proc'[p].unseen
  /\ UNCHANGED << tables, now, auth, last, slugReturns, userReturns >>

CallCreateTimer(p, userId) == CallCreateTimerUpTo(p, userId, MaxTimers)

\* FOREIGN KEY (userid) REFERENCES Users(id), when enforced.
UserKeyOk(userId) == ~foreign_keys \/ \E u \in Users : u.id = userId

\* INSERT INTO Timers (title, slug, secret, userid) VALUES (?, ?, ?, ?):
\* epoch and createdAt default to unixepoch(), format to 2.
NewTimer(title, slug, secret, userId) ==
  [id |-> seq["Timers"] + 1, epoch |-> now, title |-> title, slug |-> slug,
   secret |-> secret, userid |-> userId, format |-> DefaultFormat,
   createdAt |-> now]

InsertTimer(p) ==
  /\ proc[p].pc = "insertTimer"
  /\ IF UserKeyOk(proc[p].userId)
     THEN \E title \in Titles, secret \in Secrets :
            /\ Timers' = Timers \cup {NewTimer(title, proc[p].slug, secret, proc[p].userId)}
            /\ seq' = [seq EXCEPT !["Timers"] = @ + 1]
            /\ Complete(p, NoError)
     ELSE /\ Complete(p, ForeignKeyError)
          /\ UNCHANGED << Timers, seq >>
  /\ UNCHANGED << Slugs, Users, Groups, TimerGroups, now, auth, Settings, calls, slugReturns,
                  userReturns >>

\* ------------------------------------------------------ createGroup
\* createGroup called while fewer than max groups exist or are being created.
CallCreateGroupUpTo(p, userId, max) ==
  /\ seq["Groups"] + Cardinality({q \in Procs : proc[q].op = "createGroup"}) < max
  /\ EnterCreateSlug(p, "createGroup", 0, userId)
  /\ ~proc'[p].unseen
  /\ UNCHANGED << tables, now, auth, last, slugReturns, userReturns >>

CallCreateGroup(p, userId) == CallCreateGroupUpTo(p, userId, MaxGroups)

\* INSERT INTO Groups (title, slug, userid) VALUES (?, ?, ?)
NewGroup(title, slug, userId) ==
  [id |-> seq["Groups"] + 1, title |-> title, slug |-> slug, userid |-> userId,
   createdAt |-> now]

InsertGroup(p) ==
  /\ proc[p].pc = "insertGroup"
  /\ IF UserKeyOk(proc[p].userId)
     THEN \E title \in Titles :
            LET row == NewGroup(title, proc[p].slug, proc[p].userId)
                lastID == row.id
            IN /\ Groups' = Groups \cup {row}
               /\ seq' = [seq EXCEPT !["Groups"] = @ + 1]
               /\ IF lastID = 0   \* if (!res.lastID)
                  THEN Complete(p, NoGroupIdError)
                  ELSE Complete(p, NoError)
     ELSE /\ Complete(p, ForeignKeyError)
          /\ UNCHANGED << Groups, seq >>
  /\ UNCHANGED << Slugs, Users, Timers, TimerGroups, now, auth, Settings, calls, slugReturns,
                  userReturns >>

\* ------------------------------------------ one-statement operations
\* (variant: WHERE slug = ? alone)
TimersToDeleteBySlug(userId, slug) == {t \in Timers : t.slug = slug}

\* DELETE FROM Timers WHERE userid = ? AND slug = ?
TimersToDelete(userId, slug) == {t \in Timers : t.userid = userId /\ t.slug = slug}

\* ON DELETE CASCADE from Timers to TimerGroups, when foreign keys are enforced.
CascadeTimers(gone) ==
  IF foreign_keys THEN {tg \in TimerGroups : tg.timerid \notin {t.id : t \in gone}}
  ELSE TimerGroups

DeleteTimer(userId, slug) ==
  /\ Timers' = Timers \ TimersToDelete(userId, slug)
  /\ TimerGroups' = CascadeTimers(TimersToDelete(userId, slug))
  /\ last' = [NoCall EXCEPT !.op = "deleteTimer", !.userId = userId, !.slug = slug]
  /\ UNCHANGED << Slugs, Users, Groups, seq, now, auth, Settings, proc, calls, slugReturns,
                  userReturns >>

\* (variant: WHERE slug = ? alone)
TimersToResetBySlug(slug, secret) == {t \in Timers : t.slug = slug}

\* UPDATE Timers SET epoch = unixepoch() WHERE slug = ? AND secret = ?
TimersToReset(slug, secret) == {t \in Timers : t.slug = slug /\ t.secret = secret}

ResetTimer(slug, secret) ==
  /\ Timers' = {IF t \in TimersToReset(slug, secret) THEN [t EXCEPT !.epoch = now] ELSE t
                : t \in Timers}
  /\ last' = [NoCall EXCEPT !.op = "resetTimer", !.slug = slug, !.secret = secret]
  /\ UNCHANGED << Slugs, Users, Groups, TimerGroups, seq, now, auth, Settings, proc, calls,
                  slugReturns, userReturns >>

\* DELETE FROM Groups WHERE slug = ?
GroupsToDelete(userId, slug) == {g \in Groups : g.slug = slug}

\* ON DELETE CASCADE from Groups to TimerGroups, when foreign keys are enforced.
CascadeGroups(gone) ==
  IF foreign_keys THEN {tg \in TimerGroups : tg.groupid \notin {g.id : g \in gone}}
  ELSE TimerGroups

\* deleteGroup(slug) takes no user id: userId is the user on whose behalf the
\* caller issues the request, which the statement never sees.
DeleteGroup(userId, slug) ==
  /\ Groups' = Groups \ GroupsToDelete(userId, slug)
  /\ TimerGroups' = CascadeGroups(GroupsToDelete(userId, slug))
  /\ last' = [NoCall EXCEPT !.op = "deleteGroup", !.userId = userId, !.slug = slug]
  /\ UNCHANGED << Slugs, Users, Timers, seq, now, auth, Settings, proc, calls, slugReturns,
                  userReturns >>

\* FOREIGN KEY (groupid) / (timerid), when enforced.
LinkKeysOk(groupId, timerId) ==
  \/ ~foreign_keys
  \/ /\ \E g \in Groups : g.id = groupId
     /\ \E t \in Timers : t.id = timerId

\* INSERT INTO TimerGroups (userid, groupid, timerid) VALUES (?, ?, ?)
\* addTimer called while fewer than max membership rows were ever inserted.
AddTimerUpTo(userId, groupId, timerId, max) ==
  /\ seq["TimerGroups"] < max
  /\ IF LinkKeysOk(groupId, timerId)
     THEN /\ TimerGroups' = TimerGroups \cup
               {[id |-> seq["TimerGroups"] + 1, groupid |-> groupId,
                 timerid |-> timerId, userid |-> userId, createdAt |-> now]}
          /\ seq' = [seq EXCEPT !["TimerGroups"] = @ + 1]
          /\ last' = [NoCall EXCEPT !.op = "addTimer", !.userId = userId,
                                    !.groupId = groupId, !.timerId = timerId]
     ELSE /\ UNCHANGED << TimerGroups, seq >>
          /\ last' = [NoCall EXCEPT !.op = "addTimer", !.userId = userId,
                                    !.groupId = groupId, !.timerId = timerId,
                                    !.err = ForeignKeyError]
  /\ UNCHANGED << Slugs, Users, Timers, Groups, now, auth, Settings, proc, calls, slugReturns,
                  userReturns >>

AddTimer(userId, groupId, timerId) == AddTimerUpTo(userId, groupId, timerId, MaxLinks)

\* DELETE FROM TimerGroups WHERE userid = ? AND groupid = ? AND timerid = ?
RemoveTimer(userId, groupId, timerId) ==
  /\ TimerGroups' = {tg \in TimerGroups :
                       ~(tg.userid = userId /\ tg.groupid = groupId /\ tg.timerid = timerId)}
  /\ last' = [NoCall EXCEPT !.op = "removeTimer", !.userId = userId,
                            !.groupId = groupId, !.timerId = timerId]
  /\ UNCHANGED << Slugs, Users, Timers, Groups, seq, now, auth, Settings, proc, calls,
                  slugReturns, userReturns >>

\* -------------------------------------------------- getTimersBySlug
\* The three SELECTs of the statement, in order: the table each starts from
\* and whether it ends with an ORDER BY clause.
TimersBySlugSelects ==
  << [from |-> "Groups", orderBy |-> TRUE],
     [from |-> "Timers", orderBy |-> FALSE],
     [from |-> "Users", orderBy |-> TRUE] >>

\* SQLite compiles a compound SELECT only when no SELECT before the last one
\* has an ORDER BY: "ORDER BY clause should come after UNION ALL not before".
CompoundCompiles(selects) == \A i \in 1 .. (Len(selects) - 1) : ~selects[i].orderBy

\* db.all(sql, slug, slug): two values for the three placeholders; the third
\* placeholder stays NULL.
TimersBySlugParams(slug) == << slug, slug, Null >>

\* column = ?  (never true of NULL)
SqlEquals(value, param) == param # Null /\ value = param

\* The rows of the three SELECTs, each row marked with the SELECT and the
\* joined row it comes from, as UNION ALL keeps them all.
GroupSlugRows(param) ==
  {[from |-> "Groups", via |-> x[2].id, t |-> x[3]] :
     x \in {y \in Groups \X TimerGroups \X Timers :
              /\ y[1].id = y[2].groupid
              /\ y[2].timerid = y[3].id
              /\ SqlEquals(y[1].slug, param)}}

TimerSlugRows(param) ==
  {[from |-> "Timers", via |-> t.id, t |-> t] :
     t \in {y \in Timers : SqlEquals(y.slug, param)}}

UserSlugRows(param) ==
  {[from |-> "Users", via |-> x[1].id, t |-> x[2]] :
     x \in {y \in Users \X Timers :
              /\ y[2].userid = y[1].id
              /\ SqlEquals(y[1].slug, param)}}

\* The sequences that list every element of S once.
Orderings(S) ==
  {f \in [1 .. Cardinality(S) -> S] : \A i, j \in DOMAIN f : i # j => f[i] # f[j]}

\* What the statement returns once compiled: the rows of the three SELECTs
\* under the last ORDER BY t.createdAt ASC, rows of equal createdAt in any
\* order.
TimersBySlugResults(slug) ==
  LET params == TimersBySlugParams(slug)
      rows == GroupSlugRows(params[1]) \cup TimerSlugRows(params[2])
                \cup UserSlugRows(params[3])
  IN {[i \in DOMAIN f |-> f[i].t] :
        f \in {g \in Orderings(rows) :
                 \A i, j \in DOMAIN g : i < j => g[i].t.createdAt <= g[j].t.createdAt}}

GetTimersBySlug(slug) ==
  /\ IF CompoundCompiles(TimersBySlugSelects)
     THEN \E rows \in TimersBySlugResults(slug) :
            last' = [NoCall EXCEPT !.op = "getTimersBySlug", !.slug = slug, !.ret = rows]
     ELSE last' = [NoCall EXCEPT !.op = "getTimersBySlug", !.slug = slug,
                                 !.err = SqlSyntaxError]
  /\ UNCHANGED << tables, now, auth, proc, calls, slugReturns, userReturns >>

\* -------------------------------------------------------- getGroups
\* (variant: the WHERE g.userid = ? left out)
GroupJoinRowsAnyOwner(userId) ==
  {[g |-> x[1], tg |-> x[2], t |-> x[3]] :
     x \in {y \in Groups \X TimerGroups \X Timers :
              /\ y[2].groupid = y[1].id
              /\ y[2].timerid = y[3].id}}

\* (variant: LEFT JOIN, a group that joins no row gives one row of NULLs)
GroupJoinRowsLeft(userId) ==
  {[g |-> x[1], tg |-> x[2], t |-> x[3]] :
     x \in {y \in Groups \X TimerGroups \X Timers :
              /\ y[2].groupid = y[1].id
              /\ y[2].timerid = y[3].id
              /\ y[1].userid = userId}}
    \cup {[g |-> g, tg |-> Null, t |-> Null] :
            g \in {h \in Groups :
                     /\ h.userid = userId
                     /\ ~\E tg \in TimerGroups, t \in Timers :
                           tg.groupid = h.id /\ tg.timerid = t.id}}

\* SELECT ... FROM Groups g INNER JOIN TimerGroups tg ON tg.groupid = g.id
\*   INNER JOIN Timers t ON tg.timerid = t.id WHERE g.userid = ?
GroupJoinRows(userId) ==
  {[g |-> x[1], tg |-> x[2], t |-> x[3]] :
     x \in {y \in Groups \X TimerGroups \X Timers :
              /\ y[2].groupid = y[1].id
              /\ y[2].timerid = y[3].id
              /\ y[1].userid = userId}}

\* groups[row.g_id] after the loop over the rows: made from the first row of
\* the group, its timers pushed in the order of the rows.
GroupOfRows(rows, id) ==
  LET mine == SelectSeq(rows, LAMBDA r : r.g.id = id)
  IN [id |-> mine[1].g.id, title |-> mine[1].g.title, slug |-> mine[1].g.slug,
      createdAt |-> mine[1].g.createdAt,
      timers |-> [i \in DOMAIN mine |-> mine[i].t]]

\* The elements of a set of numbers in ascending order.
RECURSIVE Ascending(_)
Ascending(S) ==
  IF S = {} THEN << >>
  ELSE LET least == CHOOSE x \in S : \A y \in S : x <= y
       IN << least >> \o Ascending(S \ {least})

\* Object.values(groups): the values by ascending integer key.
ObjectValues(rows) ==
  LET keys == Ascending({rows[i].g.id : i \in DOMAIN rows})
  IN [k \in DOMAIN keys |-> GroupOfRows(rows, keys[k])]

\* arr.sort((a, b) => a.createdAt - b.createdAt), a stable sort: each element
\* goes behind the elements before it that do not compare greater.
RECURSIVE SortByCreatedAt(_)
SortByCreatedAt(arr) ==
  IF arr = << >> THEN << >>
  ELSE LET front == SortByCreatedAt(SubSeq(arr, 1, Len(arr) - 1))
           x == arr[Len(arr)]
           keep == Cardinality({i \in DOMAIN front :
                                  \E j \in i .. Len(front) :
                                    front[j].createdAt <= x.createdAt})
       IN SubSeq(front, 1, keep) \o << x >> \o SubSeq(front, keep + 1, Len(front))

GetGroups(userId) ==
  /\ \E rows \in Orderings(GroupJoinRows(userId)) :
       last' = [NoCall EXCEPT !.op = "getGroups", !.userId = userId,
                              !.ret = SortByCreatedAt(ObjectValues(rows))]
  /\ UNCHANGED << tables, now, auth, proc, calls, slugReturns, userReturns >>

\* --------------------------------------------------------- settings
\* The keys read and written: the one setup inserts and two more.
SettingKeys == {"version", "other", "theme"}

\* (variant: the conflict clause left out, the insert ignored on a conflict)
UpsertIgnoring(table, key, value) == InsertOrIgnoreSetting(table, key, value)

\* INSERT OR IGNORE INTO Settings (key, value) VALUES (key, value)
\* ON CONFLICT(Settings.key) DO UPDATE SET value = value: the conflict clause
\* of the statement decides a conflict on key, and updates the row.
Upsert(table, key, value) ==
  [k \in DOMAIN table \cup {key} |-> IF k = key THEN value ELSE table[k]]

\* SELECT value FROM Settings WHERE key = key, then res?.value: << v >> for
\* the value v of the row, Undefined when there is no row.
SettingValue(table, key) ==
  IF key \in DOMAIN table THEN << table[key] >> ELSE Undefined

SetSetting(key, value) ==
  /\ Settings' = Upsert(Settings, key, value)
  /\ last' = [NoCall EXCEPT !.op = "setSetting", !.key = key, !.value = value]
  /\ UNCHANGED << Slugs, Users, Timers, Groups, TimerGroups, seq, now, auth, proc, calls,
                  slugReturns, userReturns >>

GetSetting(key) ==
  /\ last' = [NoCall EXCEPT !.op = "getSetting", !.key = key,
                            !.ret = SettingValue(Settings, key)]
  /\ UNCHANGED << tables, now, auth, proc, calls, slugReturns, userReturns >>

\* Data.init called again on the open database: every CREATE statement finds
\* its table or index, the INSERT OR IGNORE of the version is run again.
DataInit ==
  /\ Settings' = SetupSettings(Settings)
  /\ last' = [NoCall EXCEPT !.op = "init"]
  /\ UNCHANGED << Slugs, Users, Timers, Groups, TimerGroups, seq, now, auth, proc, calls,
                  slugReturns, userReturns >>

\* ------------------------------------------------------- formatting
\* Times are JavaScript numbers of seconds, fractions included (Date.now() /
\* 1000); the model counts them in parts of a second, SubSeconds to the
\* second.  epoch is an INTEGER column.
Seconds(n) == n * SubSeconds

units ==
  << [name |-> "Year", scale |-> 365 * 24 * 3600],
     [name |-> "Week", scale |-> 7 * 24 * 3600],
     [name |-> "Day", scale |-> 24 * 3600],
     [name |-> "Hour", scale |-> 24 * 3600],
     [name |-> "Minute", scale |-> 60] >>

\* `${s.scale} ${s.name}${s.scale === 1 ? '' : 's'}`
scaleToStr(s) == ToString(s.scale) \o " " \o s.name \o (IF s.scale = 1 THEN "" ELSE "s")

\* Math.floor(diff / scale), diff in parts of a second and scale in seconds
FloorDiv(diff, scale) == diff \div Seconds(scale)

\* (variant: the subtraction left out)
RemainingUnchanged(diff, qty, unit) == diff

\* diff = diff - qty * unit.scale
Remaining(diff, qty, unit) == diff - qty * Seconds(unit.scale)

\* The loop of bucketTimes from unit number i on.
RECURSIVE BucketLoop(_, _, _)
BucketLoop(i, diff, diffs) ==
  IF i > Len(units) THEN diffs
  ELSE LET unit == units[i]
           qty == FloorDiv(diff, unit.scale)
       IN BucketLoop(i + 1, Remaining(diff, qty, unit),
                     IF qty > 0 \/ Len(diffs) > 0
                     THEN Append(diffs, [name |-> unit.name, scale |-> qty])
                     ELSE diffs)

bucketTimes(diff) == BucketLoop(1, diff, << >>)

\* units.filter((v) => v.name === 'Year'): the name looked up, whatever the
\* name the formatter was made for.
ScaleLookedUp(name) == "Year"

makeScaleFormatter(name, epoch, n) ==
  LET found == SelectSeq(units, LAMBDA v : v.name = ScaleLookedUp(name))
  IN IF found = << >> THEN ScaleError
     ELSE scaleToStr([name |-> name,
                      scale |-> FloorDiv(n - Seconds(epoch), found[1].scale)])

ShowEpoch(e, n) == ToString(e)

OneUnit(e, n) ==
  LET b == bucketTimes(n - Seconds(e))
  IN IF b = << >> THEN "-" ELSE scaleToStr(b[1])

TwoUnits(e, n) ==
  LET b == bucketTimes(n - Seconds(e))
  IN IF b = << >> THEN "-"
     ELSE IF Len(b) < 2 THEN scaleToStr(b[1])
     ELSE scaleToStr(b[1]) \o ", " \o scaleToStr(b[2])

\* The registry: name and strategy of each entry, index 0 first.
formatters ==
  << [name |-> "Show Epoch", unit |-> ""],
     [name |-> "One Unit", unit |-> ""],
     [name |-> "Two Units", unit |-> ""],
     [name |-> "Years", unit |-> "Year"],
     [name |-> "Weeks", unit |-> "Week"],
     [name |-> "Days", unit |-> "Day"],
     [name |-> "Hours", unit |-> "Hour"],
     [name |-> "Minutes", unit |-> "Minute"] >>

\* formatter(epoch, now) of a registry entry
ApplyFormatter(f, e, n) ==
  CASE f.name = "Show Epoch" -> ShowEpoch(e, n)
    [] f.name = "One Unit" -> OneUnit(e, n)
    [] f.name = "Two Units" -> TwoUnits(e, n)
    [] OTHER -> makeScaleFormatter(f.unit, e, n)

\* (variant: falling back to the default format of a Timers row)
FormatterAtOrDefault(format) ==
  IF format # Undefined /\ format[1] \in 0 .. (Len(formatters) - 1)
  THEN formatters[format[1] + 1]
  ELSE formatters[DefaultFormat + 1]

\* formatters[format] ?? formatters[1]: format is << n >> for the number n
\* and Undefined when the value is missing.
FormatterAt(format) ==
  IF format # Undefined /\ format[1] \in 0 .. (Len(formatters) - 1)
  THEN formatters[format[1] + 1]
  ELSE formatters[1 + 1]

\* formatTime(epoch, format) when Date.now() / 1000 reads clock parts of a
\* second.
formatTime(epoch, format, clock) == ApplyFormatter(FormatterAt(format), epoch, clock)

FormatTime(epoch, format, clock) ==
  /\ LET ret == formatTime(epoch, format, clock)
     IN last' = [NoCall EXCEPT !.op = "formatTime", !.epoch = epoch, !.format = format,
                               !.clock = clock, !.ret = ret,
                               !.err = IF ret = ScaleError THEN ScaleError ELSE NoError]
  /\ UNCHANGED << tables, now, auth, proc, calls, slugReturns, userReturns >>

BucketTimes(diff) ==
  /\ last' = [NoCall EXCEPT !.op = "bucketTimes", !.diff = diff, !.ret = bucketTimes(diff)]
  /\ UNCHANGED << tables, now, auth, proc, calls, slugReturns, userReturns >>

\* ------------------------------------------------- auth middleware
GoogleError == "Google Returned Error:"
StateMismatch == "State mismatch."
MissingPayload == "Missing payload."
MissingEmail == "Payload missing email."
\* client.getToken or client.verifyIdToken rejects: the handler's promise
\* rejects, no handler of the options is called.
TokenRejected == "rejected"

\* req.session.auth of session sid becomes value.
SetSessionAuth(sid, value) == [auth EXCEPT !.session[sid] = value]

\* The default of setState: req.session.auth = {state}
setState(state, sid) == SetSessionAuth(sid, [state |-> << state >>, email |-> Undefined])

\* The default of checkState: state === req.session.auth?.state, where state
\* is q.state, undefined when the query has no state parameter.
checkState(state, sid) == state = auth.session[sid].state

\* What the request of a redirect carries: whether the query has an error
\* parameter, and its state parameter or none.
Queries ==
  [error : BOOLEAN, state : {<< v >> : v \in States} \cup {Undefined}]

\* What getToken and verifyIdToken make of q.code: a rejection, no payload,
\* a payload without email, or the e-mail of the Google account.
Tickets ==
  {[kind |-> k, email |-> 0] : k \in {"rejected", "noPayload", "noEmail"}}
    \cup {[kind |-> "email", email |-> e] : e \in Emails}

\* loginHandler: a new state is stored in the session, the browser is sent
\* to the authorization URL.
LoginHandler(sid) ==
  /\ \E state \in States :
       /\ auth' = setState(state, sid)
       /\ last' = [NoCall EXCEPT !.op = "login", !.sid = sid, !.state = << state >>]
  /\ UNCHANGED << tables, now, proc, calls, slugReturns, userReturns >>

\* The default of logoutHandler: req.session.auth = {}
LogoutHandler(sid) ==
  /\ auth' = SetSessionAuth(sid, NoSessionAuth)
  /\ last' = [NoCall EXCEPT !.op = "logout", !.sid = sid]
  /\ UNCHANGED << tables, now, proc, calls, slugReturns, userReturns >>

\* redirectHandler for the query q in session sid, the token exchange ending
\* as ticket.  err is the message given to errorHandler (or the rejection),
\* callback the e-mail options.loginHandler was called with, ret the e-mail
\* stored in the session.
RedirectHandler(sid, q, ticket) ==
  LET done == [NoCall EXCEPT !.op = "redirect", !.sid = sid, !.state = q.state]
  IN
  /\ IF q.error
     THEN /\ last' = [done EXCEPT !.err = GoogleError]
          /\ UNCHANGED auth
     ELSE IF ~checkState(q.state, sid)
     THEN /\ last' = [done EXCEPT !.err = StateMismatch]
          /\ UNCHANGED auth
     ELSE IF ticket.kind = "rejected"
     THEN /\ last' = [done EXCEPT !.err = TokenRejected]
          /\ UNCHANGED auth
     ELSE IF ticket.kind = "noPayload"
     THEN /\ last' = [done EXCEPT !.err = MissingPayload]
          /\ UNCHANGED auth
     ELSE IF ticket.kind = "noEmail"
     THEN /\ last' = [done EXCEPT !.err = MissingEmail]
          /\ UNCHANGED auth
     ELSE IF auth.loginHandler
     THEN /\ last' = [done EXCEPT !.callback = << ticket.email >>]
          /\ UNCHANGED auth
     ELSE /\ last' = [done EXCEPT !.ret = << ticket.email >>]
          /\ auth' = SetSessionAuth(sid, [state |-> Undefined,
                                          email |-> << ticket.email >>])
  /\ UNCHANGED << tables, now, proc, calls, slugReturns, userReturns >>

\* Time passes.
Tick ==
  /\ now < MaxNow
  /\ now' = now + 1
  /\ UNCHANGED << tables, auth, proc, calls, last, slugReturns, userReturns >>

\* createSlug alone, calls interleaved.
SlugNext ==
  \/ \E p \in Procs : CallCreateSlug(p)
  \/ \E p \in Procs : CreateSlugStep(p)

SlugSpec == Init /\ [][SlugNext]_vars

\* createSlug alone, one call after the other, no other writer.
SeqSlugNext ==
  \/ \E p \in StoreProcs : CallCreateSlug(p)
  \/ \E p \in StoreProcs : CreateSlugStep(p)

SeqSlugSpec == Init /\ [][SeqSlugNext]_vars

\* getOrCreateUser, calls interleaved.
UserNext ==
  \/ \E p \in Procs, email \in Emails : CallGetOrCreateUser(p, email)
  \/ \E p \in Procs : CreateSlugStep(p)
  \/ \E p \in Procs : InsertUser(p)
  \/ \E p \in Procs : SelectUser(p)

UserSpec == Init /\ [][UserNext]_vars

\* The operations that create and delete the entities that hold slugs, and
\* the lookup by slug.
Next ==
  \/ \E p \in StoreProcs, email \in Emails : CallGetOrCreateUser(p, email)
  \/ \E p \in StoreProcs, userId \in UserIds : CallCreateTimer(p, userId)
  \/ \E p \in StoreProcs, userId \in UserIds : CallCreateGroup(p, userId)
  \/ \E p \in StoreProcs : CreateSlugStep(p)
  \/ \E p \in StoreProcs : InsertUser(p)
  \/ \E p \in StoreProcs : SelectUser(p)
  \/ \E p \in StoreProcs : InsertTimer(p)
  \/ \E p \in StoreProcs : InsertGroup(p)
  \/ \E userId \in UserIds, slug \in SlugArgs : DeleteTimer(userId, slug)
  \/ \E userId \in UserIds, slug \in SlugArgs : DeleteGroup(userId, slug)
  \/ \E slug \in SlugArgs : GetTimersBySlug(slug)

Spec == Init /\ [][Next]_vars

\* Timers: created, reset and deleted while time passes.
TimerNext ==
  \/ \E p \in StoreProcs, userId \in UserIds : CallCreateTimer(p, userId)
  \/ \E p \in StoreProcs : CreateSlugStep(p)
  \/ \E p \in StoreProcs : InsertTimer(p)
  \/ \E userId \in UserIds, slug \in SlugArgs : DeleteTimer(userId, slug)
  \/ \E slug \in SlugArgs, secret \in SecretGuesses : ResetTimer(slug, secret)
  \/ Tick

TimerSpec == Init /\ [][TimerNext]_vars

\* Groups, timers and the membership rows between them.
GroupNext ==
  \/ \E p \in StoreProcs, userId \in UserIds : CallCreateTimer(p, userId)
  \/ \E p \in StoreProcs, userId \in UserIds : CallCreateGroup(p, userId)
  \/ \E p \in StoreProcs : CreateSlugStep(p)
  \/ \E p \in StoreProcs : InsertTimer(p)
  \/ \E p \in StoreProcs : InsertGroup(p)
  \/ \E userId \in UserIds, slug \in SlugArgs : DeleteTimer(userId, slug)
  \/ \E userId \in UserIds, slug \in SlugArgs : DeleteGroup(userId, slug)
  \/ \E userId \in UserIds, groupId \in 1 .. MaxGroups, timerId \in 1 .. MaxTimers :
       AddTimer(userId, groupId, timerId)
  \/ \E userId \in UserIds, groupId \in 1 .. MaxGroups, timerId \in 1 .. MaxTimers :
       RemoveTimer(userId, groupId, timerId)

GroupSpec == Init /\ [][GroupNext]_vars

\* Timers and groups created and linked while time passes, and listed.
ListNext ==
  \/ \E p \in StoreProcs, userId \in UserIds : CallCreateTimer(p, userId)
  \/ \E p \in StoreProcs, userId \in UserIds : CallCreateGroupUpTo(p, userId, MaxListed)
  \/ \E p \in StoreProcs : CreateSlugStep(p)
  \/ \E p \in StoreProcs : InsertTimer(p)
  \/ \E p \in StoreProcs : InsertGroup(p)
  \/ \E userId \in Linkers, groupId \in 1 .. MaxListed, timerId \in 1 .. MaxTimers :
       AddTimerUpTo(userId, groupId, timerId, MaxListed)
  \/ Tick
  \/ \E slug \in SlugArgs : GetTimersBySlug(slug)
  \/ \E userId \in UserIds : GetGroups(userId)

ListSpec == Init /\ [][ListNext]_vars

\* One group and its membership rows, added, removed and added again, and
\* the groups listed.
MemberNext ==
  \/ \E p \in StoreProcs, userId \in UserIds : CallCreateTimer(p, userId)
  \/ \E p \in StoreProcs, userId \in UserIds : CallCreateGroup(p, userId)
  \/ \E p \in StoreProcs : CreateSlugStep(p)
  \/ \E p \in StoreProcs : InsertTimer(p)
  \/ \E p \in StoreProcs : InsertGroup(p)
  \/ \E userId \in Linkers, groupId \in 1 .. MaxGroups, timerId \in 1 .. MaxTimers :
       AddTimerUpTo(userId, groupId, timerId, MaxListed)
  \/ \E userId \in Linkers, groupId \in 1 .. MaxGroups, timerId \in 1 .. MaxTimers :
       RemoveTimer(userId, groupId, timerId)
  \/ \E userId \in UserIds : GetGroups(userId)

MemberSpec == Init /\ [][MemberNext]_vars

\* The middleware made with or without a loginHandler option.
AuthInit ==
  /\ Settings = SetupSettings(<< >>)
  /\ Slugs = {}
  /\ Users = {}
  /\ Timers = {}
  /\ Groups = {}
  /\ TimerGroups = {}
  /\ seq = [t \in {"Users", "Timers", "Groups", "TimerGroups"} |-> 0]
  /\ now = 0
  /\ auth \in {[NoAuth EXCEPT !.loginHandler = given] : given \in BOOLEAN}
  /\ proc = [p \in Procs |-> Idle]
  /\ calls = 0
  /\ last = NoCall
  /\ slugReturns = [s \in AllSlugs |-> 0]
  /\ userReturns = << >>

\* The requests the routes login, logout and redirect answer.
AuthNext ==
  \/ \E sid \in Sessions : LoginHandler(sid)
  \/ \E sid \in Sessions : LogoutHandler(sid)
  \/ \E sid \in Sessions, q \in Queries, ticket \in Tickets : RedirectHandler(sid, q, ticket)

AuthSpec == AuthInit /\ [][AuthNext]_vars

\* The settings read, written and set up again.
SettingsNext ==
  \/ \E key \in SettingKeys, value \in 0 .. MaxValue : SetSetting(key, value)
  \/ \E key \in SettingKeys : GetSetting(key)
  \/ DataInit

SettingsSpec == Init /\ [][SettingsNext]_vars

\* The durations formatted: up to MaxCount of each calendar unit, and a rest
\* of no second, one second or 59 seconds.
Durations ==
  {y * (365 * 24 * 3600) + w * (7 * 24 * 3600) + d * (24 * 3600) + h * 3600 + m * 60 + r :
     y \in 0 .. MaxCount, w \in 0 .. MaxCount, d \in 0 .. MaxCount,
     h \in 0 .. MaxCount, m \in 0 .. MaxCount, r \in {0, 1, 59}}

\* The fractions of a second Date.now() may read: none and the largest.
Fractions == {0, SubSeconds - 1}

\* The format values read from a Timers row: every index of the registry,
\* the numbers next to them, and a missing value.
Formats == {<< n >> : n \in (-1) .. (Len(formatters) + 1)} \cup {Undefined}

\* The arguments of one call of a formatting function: a timer's epoch and
\* format, the clock reading, and the difference of the two times.
FormatArgs ==
  {[NoCall EXCEPT !.op = "args", !.epoch = epoch, !.format = format,
                  !.clock = Seconds(epoch + d) + part, !.diff = Seconds(d) + part] :
     epoch \in 0 .. MaxNow, format \in Formats, d \in Durations, part \in Fractions}

FormatInit ==
  /\ Settings = SetupSettings(<< >>)
  /\ Slugs = {}
  /\ Users = {}
  /\ Timers = {}
  /\ Groups = {}
  /\ TimerGroups = {}
  /\ seq = [t \in {"Users", "Timers", "Groups", "TimerGroups"} |-> 0]
  /\ now = 0
  /\ auth = NoAuth
  /\ proc = [p \in Procs |-> Idle]
  /\ calls = 0
  /\ last \in FormatArgs
  /\ slugReturns = [s \in AllSlugs |-> 0]
  /\ userReturns = << >>

\* The formatting functions applied to the arguments drawn.
FormatNext ==
  \/ last.op = "args" /\ FormatTime(last.epoch, last.format, last.clock)
  \/ last.op = "args" /\ BucketTimes(last.diff)

FormatSpec == FormatInit /\ [][FormatNext]_vars

\* ============================================================ claims

\* Helpers of the formulas below.
ReturnedNow == {s \in AllSlugs : slugReturns'[s] > slugReturns[s]}

RowsFor(email) == {u \in Users : u.email = email}

TimerIds(rows) == {t.id : t \in rows}

GroupIds(rows) == {g.id : g \in rows}

\* ---- C1
\* The entities that hold a slug: every Users, Timers and Groups row.
SlugHolders ==
  {<< "user", u.id, u.slug >> : u \in Users}
    \cup {<< "timer", t.id, t.slug >> : t \in Timers}
    \cup {<< "group", g.id, g.slug >> : g \in Groups}

\* C1: in every state reachable by getOrCreateUser, createTimer, createGroup,
\* deleteTimer and deleteGroup calls, no two entities among Users, Timers and
\* Groups, of the same kind or not, hold the same slug.
C1_NoSharedSlug ==
  \A a \in SlugHolders, b \in SlugHolders : a # b => a[3] # b[3]

\* ---- C2
\* C2: createSlug accepts (returns) a candidate only if the candidate was not
\* in the Slugs registry before the insert; so sequential calls with no other
\* writer never return a slug that is already registered.
C2_AcceptsOnlyAbsent ==
  [][\A s \in ReturnedNow : s \notin Slugs]_vars

\* ---- C3
\* C3: createSlug runs at most 27 inserts: insert number t+1 draws with
\* length 6 for t < 9, 8 for t < 18 and 10 for t < 27; it returns at the first
\* accepted draw, so with a slug of length 6, 8 or 10 that is the length of the
\* draw; it goes on after a rejected draw that is not the 27th; and it throws
\* the exhaustion error exactly when the 27th draw is rejected.
C3_BoundedSearch ==
  [][\A p \in Procs :
       (proc[p].pc = "createSlug" /\ proc'[p] # proc[p]) =>
         LET t == proc[p].tries
             thrown == proc'[p].pc = "idle" /\ last'.err = ExhaustionError
         IN /\ t < 27
            /\ proc[p].length = 6 + 2 * (t \div 9)
            /\ \A s \in ReturnedNow :
                 /\ Len(s) = proc[p].length
                 /\ Len(s) \in {6, 8, 10}
                 /\ proc'[p].pc = "idle"
                 /\ last'.err = NoError
            /\ thrown <=> (t = 26 /\ ReturnedNow = {})
            /\ (ReturnedNow = {} /\ t < 26) =>
                 (proc'[p].pc = "createSlug" /\ proc'[p].tries = t + 1)]_vars

\* A createSlug call has thrown after its 27 draws were rejected.
C3_Exhausted == last.op = "createSlug" /\ last.err = ExhaustionError

\* ---- C4
\* C4: two createSlug calls that run concurrently do not return the same
\* slug: a call never returns the slug that the call completed just before it
\* returned while this call was running.
C4_ConcurrentDistinct ==
  [][\A p \in Procs :
       (proc[p].pc = "createSlug" /\ proc'[p] # proc[p] /\ p \in last.during) =>
         \A s \in ReturnedNow : s # last.ret]_vars

\* ---- C5
\* C5: getOrCreateUser is idempotent: all the records it has returned for one
\* e-mail are the same record (id, email, slug), whatever calls came between,
\* and the Users table holds exactly one row for that e-mail.
C5_Idempotent ==
  \A i \in DOMAIN userReturns :
    /\ Cardinality(RowsFor(userReturns[i].user.email)) = 1
    /\ \A j \in DOMAIN userReturns :
         userReturns[i].user.email = userReturns[j].user.email
           => userReturns[i].user = userReturns[j].user

\* Two calls for one e-mail have returned, and a call for another e-mail
\* returned between them.
C5_CalledTwice ==
  \E i \in DOMAIN userReturns, k \in DOMAIN userReturns, j \in DOMAIN userReturns :
    /\ i < k /\ k < j
    /\ userReturns[i].user.email = userReturns[j].user.email
    /\ userReturns[k].user.email # userReturns[i].user.email

\* ---- C6
\* C6: when calls of getOrCreateUser for one e-mail began while the e-mail had
\* no row (concurrent first calls), the e-mail never has two rows, a call that
\* has run its insert finds exactly one row to read, and every such call has
\* returned the id and slug of the row the table holds.
C6_ConcurrentFirstCalls ==
  /\ \A e \in Emails : Cardinality(RowsFor(e)) <= 1
  /\ \A p \in Procs :
       (proc[p].pc = "selectUser" /\ proc[p].unseen)
         => Cardinality(RowsFor(proc[p].email)) = 1
  /\ \A i \in DOMAIN userReturns :
       userReturns[i].unseen => userReturns[i].user \in Users

\* Two calls that both began while the e-mail was unseen have returned.
C6_BothReturned ==
  \E i \in DOMAIN userReturns, j \in DOMAIN userReturns :
    /\ i < j
    /\ userReturns[i].unseen /\ userReturns[j].unseen
    /\ userReturns[i].user.email = userReturns[j].user.email

\* ---- C7
\* C7: resetTimer(slug, secret) completes without error, sets the epoch of
\* the timers whose slug and secret both equal the arguments to the current
\* time and leaves every other timer as it is; with no such timer nothing
\* changes.
C7_ResetNeedsSlugAndSecret ==
  [][last'.op = "resetTimer" =>
       LET slug == last'.slug
           secret == last'.secret
       IN ResetTimer(slug, secret) =>
            /\ last'.err = NoError
            /\ \A t \in Timers :
                 IF t.slug = slug /\ t.secret = secret
                 THEN [t EXCEPT !.epoch = now] \in Timers'
                 ELSE t \in Timers'
            /\ Cardinality(Timers') = Cardinality(Timers)
            /\ (\A t \in Timers : t.slug # slug \/ t.secret # secret)
                 => Timers' = Timers]_vars

\* A reset with the slug of a timer and a wrong secret has completed, and the
\* timer still has the epoch it was created with, which is in the past.
C7_WrongSecretNoReset ==
  /\ last.op = "resetTimer"
  /\ last.err = NoError
  /\ \E t \in Timers :
       /\ t.slug = last.slug
       /\ t.secret # last.secret
       /\ t.epoch = t.createdAt
       /\ t.epoch < now

C9_OwnerOnlyGroupDelete ==
  [][\A g \in Groups :
       g.id \notin GroupIds(Groups') =>
         (last'.op = "deleteGroup" /\ last'.userId = g.userid)]_vars

\* ---- C10
\* C10: after a deleteTimer or deleteGroup call that removes a Timer or Group
\* row, no TimerGroups row references the removed timer id or group id; and
\* deleting a group leaves the Timers table as it is.
C10_CascadeToMemberships ==
  [][/\ \A t \in Timers :
          t.id \notin TimerIds(Timers') =>
            \A tg \in TimerGroups' : tg.timerid # t.id
     /\ \A g \in Groups :
          g.id \notin GroupIds(Groups') =>
            /\ \A tg \in TimerGroups' : tg.groupid # g.id
            /\ Timers' = Timers]_vars

\* ---- C11
\* C11: in every reachable state the owning user id of every Timers row and
\* of every Groups row is the id of a Users row; a createTimer or createGroup
\* call with a user id that matches no user leaves no such row.
C11_OwnersExist ==
  /\ \A t \in Timers : \E u \in Users : u.id = t.userid
  /\ \A g \in Groups : \E u \in Users : u.id = g.userid

\* ---- C12
\* The membership rows of the groups with this slug whose timer exists.
LinksOfGroupSlug(slug) ==
  {tg \in TimerGroups :
     /\ \E g \in Groups : g.slug = slug /\ g.id = tg.groupid
     /\ \E t \in Timers : t.id = tg.timerid}

TimerOfId(id) == CHOOSE t \in Timers : t.id = id

\* C12: getTimersBySlug given the slug of a group completes without error
\* and returns exactly the timers linked to the group by membership rows,
\* one per row, in ascending order of the rows' creation time, and nothing
\* else.
C12_GroupSlugGivesMembers ==
  [][(/\ last'.op = "getTimersBySlug"
      /\ GetTimersBySlug(last'.slug)
      /\ \E g \in Groups : g.slug = last'.slug) =>
       /\ last'.err = NoError
       /\ \E links \in Orderings(LinksOfGroupSlug(last'.slug)) :
            /\ \A i, j \in DOMAIN links :
                 i < j => links[i].createdAt <= links[j].createdAt
            /\ last'.ret = [i \in DOMAIN links |-> TimerOfId(links[i].timerid)]]_vars

\* ---- C13
\* The timers owned by the users with this slug.
TimersOfUserSlug(slug) ==
  {t \in Timers : \E u \in Users : u.slug = slug /\ u.id = t.userid}

\* C13: getTimersBySlug given the slug of a user completes without error and
\* returns all the timers the user owns, in ascending order of their creation
\* time; given the slug of a timer it completes without error and returns
\* that one timer.
C13_UserAndTimerSlug ==
  [][(last'.op = "getTimersBySlug" /\ GetTimersBySlug(last'.slug)) =>
       /\ (\E u \in Users : u.slug = last'.slug) =>
            /\ last'.err = NoError
            /\ \E owned \in Orderings(TimersOfUserSlug(last'.slug)) :
                 /\ \A i, j \in DOMAIN owned :
                      i < j => owned[i].createdAt <= owned[j].createdAt
                 /\ last'.ret = owned
       /\ (\E t \in Timers : t.slug = last'.slug) =>
            /\ last'.err = NoError
            /\ \E t \in Timers : t.slug = last'.slug /\ last'.ret = << t >>]_vars

\* ---- C14
\* The timers linked to the group by membership rows.
TimersLinkedTo(groupId) ==
  {t \in Timers : \E tg \in TimerGroups : tg.groupid = groupId /\ tg.timerid = t.id}

\* C14: getGroups(userId) completes without error and returns only groups
\* whose owner is userId, as the Groups table holds them, each group at most
\* once, in nondecreasing order of group creation time; the timers list of
\* each returned group holds exactly the timers linked to it by membership
\* rows.
C14_GroupsOfOwner ==
  [][(last'.op = "getGroups" /\ GetGroups(last'.userId)) =>
       LET ret == last'.ret
       IN /\ last'.err = NoError
          /\ \A i \in DOMAIN ret :
               /\ \E g \in Groups :
                    /\ g.userid = last'.userId
                    /\ g.id = ret[i].id /\ g.title = ret[i].title
                    /\ g.slug = ret[i].slug /\ g.createdAt = ret[i].createdAt
               /\ {ret[i].timers[k] : k \in DOMAIN ret[i].timers} = TimersLinkedTo(ret[i].id)
          /\ \A i, j \in DOMAIN ret :
               i < j => (ret[i].id # ret[j].id /\ ret[i].createdAt <= ret[j].createdAt)]_vars

\* getGroups has returned one group, joined through two membership rows,
\* while another user owns a group.
C14_TwoRowsOneGroup ==
  /\ last.op = "getGroups"
  /\ Len(last.ret) = 1
  /\ Len(last.ret[1].timers) = 2
  /\ \E g \in Groups : g.userid # last.userId

\* The age of the timer a formatTime call rendered, in parts of a second.
Elapsed == last.clock - Seconds(last.epoch)

\* C15: a timer whose epoch lies 3661 seconds back is rendered by format 2
\* ('Two Units') as "1 Hour, 1 Minute", and the buckets of 3661 seconds begin
\* with one Hour and one Minute.
C15_TwoUnitsHourMinute ==
  /\ (last.op = "formatTime" /\ last.format = << 2 >> /\ Elapsed = Seconds(3661))
       => last.ret = "1 Hour, 1 Minute"
  /\ (last.op = "bucketTimes" /\ last.diff = Seconds(3661))
       => /\ Len(last.ret) >= 2
          /\ last.ret[1] = [name |-> "Hour", scale |-> 1]
          /\ last.ret[2] = [name |-> "Minute", scale |-> 1]

\* The seconds in one unit of the calendar.
unitSeconds(name) ==
  CASE name = "Year" -> 365 * 24 * 3600
    [] name = "Week" -> 7 * 24 * 3600
    [] name = "Day" -> 24 * 3600
    [] name = "Hour" -> 3600
    [] name = "Minute" -> 60

\* "<count> <Unit>[s]"
Rendered(count, name) ==
  ToString(count) \o " " \o name \o (IF count = 1 THEN "" ELSE "s")

\* C16: each of the formatters Years, Weeks, Days, Hours and Minutes renders
\* the whole units of its own name in the timer's age, and format 5 renders
\* an age of 3661 seconds as "1 Hour".
C16_OwnUnitScale ==
  last.op = "formatTime" =>
    /\ \A i \in 3 .. 7 :
         last.format = << i >> =>
           LET name == formatters[i + 1].unit
           IN last.ret = Rendered(Elapsed \div Seconds(unitSeconds(name)), name)
    /\ (last.format = << 5 >> /\ Elapsed = Seconds(3661)) => last.ret = "1 Hour"

\* The seconds the buckets b stand for, in parts of a second.
RECURSIVE BucketSum(_)
BucketSum(b) ==
  IF b = << >> THEN 0
  ELSE b[1].scale * Seconds(unitSeconds(b[1].name)) + BucketSum(Tail(b))

\* C17: the buckets returned for a whole number d >= 0 of seconds have counts
\* that are natural numbers, and stand for d less a remainder of under 60
\* seconds.
C17_BucketsSum ==
  (last.op = "bucketTimes" /\ last.diff >= 0 /\ last.diff % SubSeconds = 0) =>
    /\ \A i \in 1 .. Len(last.ret) : last.ret[i].scale \in Nat
    /\ (last.diff - BucketSum(last.ret)) \in 0 .. (Seconds(60) - 1)

\* A duration of whole seconds was split into two buckets or more, the first
\* two not empty, and seconds were left over.
C17_SeveralBuckets ==
  /\ last.op = "bucketTimes"
  /\ last.diff % SubSeconds = 0
  /\ Len(last.ret) >= 2
  /\ last.ret[1].scale > 0
  /\ last.ret[2].scale > 0
  /\ last.diff - BucketSum(last.ret) > 0

\* The format values that are an index of the registry.
Registered == {<< i >> : i \in 0 .. (Len(formatters) - 1)}

\* C18: a formatTime call whose format is no index of the registry (negative,
\* past the end, or missing) does not fail and returns what 'One Unit', the
\* format 1, returns for the same epoch and clock.
C18_FallsBackToOneUnit ==
  (last.op = "formatTime" /\ last.format \notin Registered) =>
    /\ last.err = NoError
    /\ last.ret = OneUnit(last.epoch, last.clock)
    /\ last.ret = formatTime(last.epoch, << 1 >>, last.clock)

\* A timer with a missing format was rendered, its age one where 'One Unit'
\* and 'Two Units' differ.
C18_MissingFormatRendered ==
  /\ last.op = "formatTime"
  /\ last.format = Undefined
  /\ last.ret # "-"
  /\ OneUnit(last.epoch, last.clock) # TwoUnits(last.epoch, last.clock)

\* C19: Settings is a map from key to value.  A setSetting(k, v) step leaves
\* v as the value getSetting reads for k, whether k had a row or not, and
\* leaves every other key as it was; getSetting returns the value of the row;
\* and an init step on a database that has a version leaves Settings as it
\* is, while the database with no version gets version = 1.
C19_SettingsUpsert ==
  /\ Settings = [k \in {"version"} |-> 1]
  /\ [][LET key == last'.key
            value == last'.value
        IN /\ SetSetting(key, value) =>
                /\ SettingValue(Settings', key) = << value >>
                /\ DOMAIN Settings' = DOMAIN Settings \cup {key}
                /\ \A k \in DOMAIN Settings \ {key} : Settings'[k] = Settings[k]
           /\ GetSetting(key) =>
                /\ last'.ret = (IF key \in DOMAIN Settings THEN << Settings[key] >>
                                ELSE Undefined)
                /\ Settings' = Settings
           /\ DataInit =>
                /\ "version" \in DOMAIN Settings
                /\ Settings' = Settings]_vars

\* init was run again after the version was changed and another key set.
C19_InitAfterNewVersion ==
  /\ last.op = "init"
  /\ "other" \in DOMAIN Settings
  /\ Settings["version"] = InitialVersion + 1

\* The slugs held by a row of Users, Timers or Groups after the step.
HeldAfter == {e.slug : e \in Users' \cup Timers' \cup Groups'}

\* C20: no step takes a slug out of the registry; and the steps of a
\* getOrCreateUser call for an e-mail that had a row when the call began leave
\* Users, Timers, Groups and TimerGroups as they are, the step on which its
\* createSlug returns adding to the registry the one slug returned, which was
\* not there and which no row holds, the other steps adding nothing.
C20_ExistingEmailGrowsRegistry ==
  [][/\ Slugs \subseteq Slugs'
     /\ \A p \in Procs :
          (proc[p].op = "getOrCreateUser" /\ ~proc[p].unseen /\ proc'[p] # proc[p]) =>
            /\ UNCHANGED << Users, Timers, Groups, TimerGroups >>
            /\ IF proc[p].pc = "createSlug" /\ proc'[p].pc = "insertUser"
               THEN /\ proc'[p].slug \notin Slugs
                    /\ Slugs' = Slugs \cup {proc'[p].slug}
                    /\ proc'[p].slug \notin HeldAfter
               ELSE Slugs' = Slugs]_vars

\* The membership rows of the group with id groupId.
LinksOf(groupId) == {tg \in TimerGroups : tg.groupid = groupId}

\* C21: getGroups(userId) returns no group that has no membership row: a
\* group is left out after createGroup and after removeTimer took its last
\* row away, and is returned again only when a row links a timer to it.
C21_NoRowsNotListed ==
  [][(last'.op = "getGroups" /\ GetGroups(last'.userId)) =>
       \A g \in Groups :
         LinksOf(g.id) = {} => \A i \in DOMAIN last'.ret : last'.ret[i].id # g.id]_vars

\* getGroups of the owner returned nothing while the owner's group, once
\* linked to a timer that is still there, has had its last row removed.
C21_ListedAfterLastRemoved ==
  /\ last.op = "getGroups"
  /\ last.ret = << >>
  /\ seq["TimerGroups"] > 0
  /\ Timers # {}
  /\ \E g \in Groups : g.userid = last.userId /\ LinksOf(g.id) = {}

\* C22: a redirect step completes a login (stores an e-mail in the session
\* or calls the login callback) only when the query's state parameter is
\* there and equals the state the login handler stored in the session; a
\* redirect whose state parameter is not that, the session that never began
\* a login included, ends in the error handler and leaves the session without
\* an e-mail.
C22_LoginNeedsStoredState ==
  [][(last'.op = "redirect"
        /\ \E q \in Queries, ticket \in Tickets :
             q.state = last'.state /\ RedirectHandler(last'.sid, q, ticket)) =>
       LET sid == last'.sid
           matches == last'.state # Undefined /\ last'.state = auth.session[sid].state
           completed == last'.callback # Undefined \/ last'.ret # Undefined
       IN /\ completed => matches
          /\ ~matches => /\ last'.err \in {StateMismatch, GoogleError}
                         /\ auth'.session[sid].email = Undefined]_vars

====
